---- MODULE Spec2Model ----
(***************************************************************************)
(* A model of weatherstrip.go: the two source parsers (loadPastTelemetry,  *)
(* loadFuture) writing into the shared timeline `merged`, and buildImage's *)
(* accumulation and render walk over it.                                   *)
(*                                                                         *)
(* Time values are instants counted in minutes since an arbitrary UTC      *)
(* midnight.  The location la (America/Los_Angeles) is modelled with the   *)
(* fixed standard-time offset of 8 hours west of UTC; daylight saving is   *)
(* not modelled.  float64 values are modelled as exact rationals           *)
(* [n |-> numerator, d |-> denominator] in lowest terms, so floating point *)
(* rounding is not modelled.                                               *)
(***************************************************************************)
EXTENDS Integers, Sequences, FiniteSets, TLC

VARIABLES
    merged,      \* map[time.Time]*HourForecast: hour key -> record
    pc,          \* position of the program
    telemetry,   \* loadPastTelemetry: the unmarshalled TelemetryData
    forecast,    \* loadFuture: the unmarshalled Forecast
    i,           \* index of the running range loop (1-based)
    err,         \* the error the last parser call returned ("nil" if none)
    called,      \* the parsers called so far
    now,         \* buildImage: now, truncated to the hour
    start,       \* buildImage: start of the accumulation walk
    curr,        \* buildImage: the hour the walk is at
    total,       \* buildImage: running accumulation
    startDepth,  \* buildImage: baseline depth of the accumulation
    img          \* buildImage: the grid of cells, img[x][y]

vars == <<merged, pc, telemetry, forecast, i, err, called,
          now, start, curr, total, startDepth, img>>

walkVars == <<now, start, curr, total, startDepth, img>>

(***************************************************************************)
(* float64 arithmetic, as exact rationals.                                 *)
(***************************************************************************)
Abs(x) == IF x < 0 THEN -x ELSE x

RECURSIVE GCD(_, _)
GCD(a, b) == IF b = 0 THEN a ELSE GCD(b, a % b)

\* the rational n/d (d > 0) in lowest terms
R(n, d) == LET g == GCD(Abs(n), d) IN [n |-> n \div g, d |-> d \div g]

F(k) == R(k, 1)

RAdd(x, y) == R(x.n * y.d + y.n * x.d, x.d * y.d)
RSub(x, y) == R(x.n * y.d - y.n * x.d, x.d * y.d)
RMul(x, y) == R(x.n * y.n, x.d * y.d)
\* x / y for y # 0
RDiv(x, y) == IF y.n > 0 THEN R(x.n * y.d, x.d * y.n)
                         ELSE R(-(x.n * y.d), x.d * (-y.n))
RLt(x, y) == x.n * y.d < y.n * x.d
RGt(x, y) == RLt(y, x)
\* Go's int(f): truncation towards zero
RInt(x) == IF x.n >= 0 THEN x.n \div x.d ELSE -((-x.n) \div x.d)

RECURSIVE RSum(_)
RSum(s) == IF s = <<>> THEN F(0) ELSE RAdd(Head(s), RSum(Tail(s)))

(***************************************************************************)
(* Unit conversion.                                                        *)
(***************************************************************************)
\* mutant: the 32 degrees are not added
toFahrenheitNoOffset(c) == RDiv(RMul(c, F(9)), F(5))

toFahrenheit(c) == RAdd(RDiv(RMul(c, F(9)), F(5)), F(32))

toInch(mm) == RDiv(mm, R(254, 10))

(***************************************************************************)
(* Time.                                                                   *)
(***************************************************************************)
TimeHour == 60          \* time.Hour, in minutes
Day == 1440             \* a calendar day, in minutes
LAOffset == 480         \* la is 8 hours west of UTC

\* t.Hour() of a time in la
HourOf(t) == ((t - LAOffset) % Day) \div TimeHour

\* time.Date(y, m, d, 0, 0, 0, 0, la) for the date of t in la
Midnight(t) == t - ((t - LAOffset) % Day)

(***************************************************************************)
(* HourForecast and the timeline.  merged[k] == nil is k \notin DOMAIN.    *)
(***************************************************************************)
ZeroForecast(hour) ==
    [Hour |-> hour,
     PredictedSnow |-> F(0), PredictedSnowLevel |-> F(0), PredictedTemp |-> F(0),
     ActualSnow |-> F(0), ActualTemp |-> F(0), ActualPrecip |-> F(0)]

\* merged[k] = v
MapSet(m, k, v) == [x \in DOMAIN m \cup {k} |-> IF x = k THEN v ELSE m[x]]

EmptyMap == [x \in {} |-> 0]

(***************************************************************************)
(* loadPastTelemetry.  A TelemetryData document is                         *)
(*   [Valid |-> json.Unmarshal succeeds,                                   *)
(*    Stations |-> a sequence of observations                              *)
(*                 [DateTime, Snow, Temp, HourPrecip], parallel arrays]    *)
(***************************************************************************)
NoData == [Valid |-> FALSE]

\* mutant: the station check is missing, Stations[0] is then out of range
LoadPastTelemetryEntryNoCheck(data) ==
    IF ~data.Valid THEN [pc |-> "retTelemetry", err |-> "json"]
    ELSE IF Len(data.Stations) = 0
         THEN [pc |-> "panic", err |-> "nil"]
         ELSE [pc |-> "telemetry", err |-> "nil"]

\* lines 125-135: where the call goes after unmarshalling and the station check
LoadPastTelemetryEntry(data) ==
    IF ~data.Valid THEN [pc |-> "retTelemetry", err |-> "json"]
    ELSE IF Len(data.Stations) = 0
         THEN [pc |-> "retTelemetry", err |-> "no stations data"]
         ELSE [pc |-> "telemetry", err |-> "nil"]

\* observations := telemetry.Series.Stations[0].Observations
Observations == telemetry.Stations[1]

\* mutant: the sample is kept at its own timestamp
TelemetryHourNoShift(t) == t

\* forecast.Hour.Add(-time.Minute * 60)
TelemetryHour(t) == t - 60

\* lines 137-146: the record built for sample idx
TelemetryForecast(obs, idx) ==
    [ZeroForecast(TelemetryHour(obs.DateTime[idx])) EXCEPT
        !.ActualSnow = obs.Snow[idx],
        !.ActualTemp = obs.Temp[idx],
        !.ActualPrecip = obs.HourPrecip[idx]]

\* line 147: merged[forecast.Hour] = forecast
TelemetryStore(m, rec) == MapSet(m, rec.Hour, rec)

\* the index expressions of lines 139-141 are all in range
InRange(obs, idx) ==
    /\ idx <= Len(obs.Snow)
    /\ idx <= Len(obs.Temp)
    /\ idx <= Len(obs.HourPrecip)

\* the call itself: lines 124-135
LoadPastTelemetryCall(data) ==
    LET e == LoadPastTelemetryEntry(data) IN
    /\ telemetry' = data
    /\ pc' = e.pc
    /\ err' = e.err
    /\ i' = 1
    /\ UNCHANGED <<merged, forecast>>

\* one iteration of the loop of lines 136-148
TelemetrySample ==
    /\ pc = "telemetry"
    /\ i <= Len(Observations.DateTime)
    /\ InRange(Observations, i)
    /\ merged' = TelemetryStore(merged, TelemetryForecast(Observations, i))
    /\ i' = i + 1
    /\ UNCHANGED <<pc, telemetry, forecast, err, called, walkVars>>

\* an index expression of lines 139-141 out of range: a runtime panic
TelemetryPanic ==
    /\ pc = "telemetry"
    /\ i <= Len(Observations.DateTime)
    /\ ~InRange(Observations, i)
    /\ pc' = "panic"
    /\ UNCHANGED <<merged, telemetry, forecast, i, err, called, walkVars>>

\* line 150
TelemetryReturn ==
    /\ pc = "telemetry"
    /\ i > Len(Observations.DateTime)
    /\ pc' = "retTelemetry"
    /\ err' = "nil"
    /\ UNCHANGED <<merged, telemetry, forecast, i, called, walkVars>>

(***************************************************************************)
(* loadFuture.  A Forecast document is                                     *)
(*   [Valid, SnowFallAmount, SnowLevel, Temperature]                       *)
(* each series a sequence of [Time |-> <<start, duration>>, Value], Time   *)
(* being validTime already split on "/".  A start is                       *)
(* [Wall |-> the date and clock fields it shows, in minutes,               *)
(*  Zone |-> its trailing offset text]; a duration is a sequence of        *)
(* characters.                                                             *)
(***************************************************************************)
\* time.ParseInLocation("2006-01-02T15:04:05+00:00", value, la): "+00:00" is
\* literal text of the layout, so the fields are read as a clock time in la
ParseInLocation(value) ==
    [ok |-> value.Zone = "+00:00", t |-> value.Wall + LAOffset]

IsDigit(c) == c \in {"0", "1", "2", "3", "4", "5", "6", "7", "8", "9"}

DigitVal(c) ==
    CASE c = "0" -> 0 [] c = "1" -> 1 [] c = "2" -> 2 [] c = "3" -> 3
      [] c = "4" -> 4 [] c = "5" -> 5 [] c = "6" -> 6 [] c = "7" -> 7
      [] c = "8" -> 8 [] c = "9" -> 9

\* the length of the longest run of digits of s that starts at position p
RECURSIVE DigitRun(_, _)
DigitRun(s, p) ==
    IF p <= Len(s) /\ IsDigit(s[p]) THEN 1 + DigitRun(s, p + 1) ELSE 0

\* "PT(\\d+)H" matches s at position p
MatchAt(s, p) ==
    /\ p + 1 <= Len(s)
    /\ s[p] = "P"
    /\ s[p + 1] = "T"
    /\ DigitRun(s, p + 2) >= 1
    /\ p + 2 + DigitRun(s, p + 2) <= Len(s)
    /\ s[p + 2 + DigitRun(s, p + 2)] = "H"

\* regex.FindAllStringSubmatch(s, 1): the leftmost match and its group, if any
FindAllStringSubmatch(s) ==
    LET ps == {p \in 1..Len(s) : MatchAt(s, p)} IN
    IF ps = {} THEN <<>>
    ELSE LET p == CHOOSE q \in ps : \A r \in ps : q <= r
             n == DigitRun(s, p + 2)
         IN << <<SubSeq(s, p, p + 2 + n), SubSeq(s, p + 2, p + 1 + n)>> >>

\* strconv.Atoi of a run of digits (short enough not to overflow)
RECURSIVE Atoi(_)
Atoi(ds) ==
    IF ds = <<>> THEN 0
    ELSE 10 * Atoi(SubSeq(ds, 1, Len(ds) - 1)) + DigitVal(ds[Len(ds)])

\* lines 190-198
SetPredictedSnow(m, valueTime, value) ==
    IF valueTime \notin DOMAIN m
    THEN MapSet(m, valueTime, [ZeroForecast(valueTime) EXCEPT !.PredictedSnow = value])
    ELSE [m EXCEPT ![valueTime].PredictedSnow = value]

\* lines 228-236
SetPredictedSnowLevel(m, valueTime, value) ==
    IF valueTime \notin DOMAIN m
    THEN MapSet(m, valueTime, [ZeroForecast(valueTime) EXCEPT !.PredictedSnowLevel = value])
    ELSE [m EXCEPT ![valueTime].PredictedSnowLevel = value]

\* lines 268-276
SetPredictedTemp(m, valueTime, value) ==
    IF valueTime \notin DOMAIN m
    THEN MapSet(m, valueTime, [ZeroForecast(valueTime) EXCEPT !.PredictedTemp = value])
    ELSE [m EXCEPT ![valueTime].PredictedTemp = value]

\* t.Add(time.Hour * time.Duration(h))
ValueTime(t, h) == t + TimeHour * h

\* mutant: every hour gets the total of the interval
SnowValueUndivided(in, hours) == in

\* value := in / float64(hours)
SnowValue(in, hours) == RDiv(in, F(hours))

\* lines 186-199, from h on
RECURSIVE SnowFallLoop(_, _, _, _, _)
SnowFallLoop(m, t, in, hours, h) ==
    IF h < hours
    THEN SnowFallLoop(SetPredictedSnow(m, ValueTime(t, h), SnowValue(in, hours)),
                      t, in, hours, h + 1)
    ELSE m

\* lines 225-237, from h on
RECURSIVE SnowLevelLoop(_, _, _, _, _)
SnowLevelLoop(m, t, value, hours, h) ==
    IF h < hours
    THEN SnowLevelLoop(SetPredictedSnowLevel(m, ValueTime(t, h), value),
                       t, value, hours, h + 1)
    ELSE m

\* lines 265-277, from h on
RECURSIVE TemperatureLoop(_, _, _, _, _)
TemperatureLoop(m, t, value, hours, h) ==
    IF h < hours
    THEN TemperatureLoop(SetPredictedTemp(m, ValueTime(t, h), value),
                         t, value, hours, h + 1)
    ELSE m

\* the series the running loop ranges over
Values ==
    CASE pc = "snowFall" -> forecast.SnowFallAmount
      [] pc = "snowLevel" -> forecast.SnowLevel
      [] pc = "temperature" -> forecast.Temperature
      [] OTHER -> <<>>

InFuture == pc \in {"snowFall", "snowLevel", "temperature"}

\* the call itself: lines 153-158
LoadFutureCall(data) ==
    /\ forecast' = data
    /\ IF data.Valid THEN pc' = "snowFall" /\ err' = "nil"
                     ELSE pc' = "retFuture" /\ err' = "json"
    /\ i' = 1
    /\ UNCHANGED <<merged, telemetry>>

\* lines 167-170, 207-210, 245-248: the interval start does not parse
FutureParseError ==
    /\ InFuture
    /\ i <= Len(Values)
    /\ ~ParseInLocation(Values[i].Time[1]).ok
    /\ pc' = "retFuture"
    /\ err' = "parse"
    /\ UNCHANGED <<merged, telemetry, forecast, i, called, walkVars>>

\* mutant: a duration that does not match ends the parse with an error
FutureSkipAborts ==
    /\ pc \in {"snowFall", "snowLevel", "temperature"}
    /\ i <= Len(Values)
    /\ ParseInLocation(Values[i].Time[1]).ok
    /\ Len(FindAllStringSubmatch(Values[i].Time[2])) = 0
    /\ pc' = "retFuture"
    /\ err' = "parse"
    /\ UNCHANGED <<merged, telemetry, forecast, i, called, walkVars>>

\* lines 175-179, 214-218, 252-256: no match, continue
FutureSkip ==
    /\ InFuture
    /\ i <= Len(Values)
    /\ ParseInLocation(Values[i].Time[1]).ok
    /\ Len(FindAllStringSubmatch(Values[i].Time[2])) = 0
    /\ i' = i + 1
    /\ UNCHANGED <<merged, pc, telemetry, forecast, err, called, walkVars>>

\* the triple the loop is at parses and its duration matches
Matched ==
    /\ i <= Len(Values)
    /\ ParseInLocation(Values[i].Time[1]).ok
    /\ Len(FindAllStringSubmatch(Values[i].Time[2])) # 0

\* one iteration of the loop of lines 162-200
SnowFallAmountValue ==
    /\ pc = "snowFall"
    /\ Matched
    /\ LET v == Values[i]
           t == ParseInLocation(v.Time[1]).t
           in == toInch(v.Value)
           hours == Atoi(FindAllStringSubmatch(v.Time[2])[1][2])
       IN merged' = SnowFallLoop(merged, t, in, hours, 0)
    /\ i' = i + 1
    /\ UNCHANGED <<pc, telemetry, forecast, err, called, walkVars>>

\* one iteration of the loop of lines 202-238
SnowLevelValue ==
    /\ pc = "snowLevel"
    /\ Matched
    /\ LET v == Values[i]
           t == ParseInLocation(v.Time[1]).t
           hours == Atoi(FindAllStringSubmatch(v.Time[2])[1][2])
       IN merged' = SnowLevelLoop(merged, t, v.Value, hours, 0)
    /\ i' = i + 1
    /\ UNCHANGED <<pc, telemetry, forecast, err, called, walkVars>>

\* one iteration of the loop of lines 240-278
TemperatureValue ==
    /\ pc = "temperature"
    /\ Matched
    /\ LET v == Values[i]
           t == ParseInLocation(v.Time[1]).t
           hours == Atoi(FindAllStringSubmatch(v.Time[2])[1][2])
           value == toFahrenheit(v.Value)
       IN merged' = TemperatureLoop(merged, t, value, hours, 0)
    /\ i' = i + 1
    /\ UNCHANGED <<pc, telemetry, forecast, err, called, walkVars>>

\* a series is exhausted: on to the next loop (lines 202, 240)
FutureNextSeries ==
    /\ pc \in {"snowFall", "snowLevel"}
    /\ i > Len(Values)
    /\ pc' = IF pc = "snowFall" THEN "snowLevel" ELSE "temperature"
    /\ i' = 1
    /\ UNCHANGED <<merged, telemetry, forecast, err, called, walkVars>>

\* line 280
LoadFutureReturn ==
    /\ pc = "temperature"
    /\ i > Len(Values)
    /\ pc' = "retFuture"
    /\ err' = "nil"
    /\ UNCHANGED <<merged, telemetry, forecast, i, called, walkVars>>

\* the steps inside the two parsers
ParserStep ==
    \/ TelemetrySample
    \/ TelemetryPanic
    \/ TelemetryReturn
    \/ FutureParseError
    \/ FutureSkip
    \/ SnowFallAmountValue
    \/ SnowLevelValue
    \/ TemperatureValue
    \/ FutureNextSeries
    \/ LoadFutureReturn

(***************************************************************************)
(* The documents the parsers are given.                                    *)
(***************************************************************************)
MaxSamples == 2         \* samples of a telemetry document
MaxTriples == 2         \* triples of a forecast series

\* the sequences over S of length at most n
SeqsUpTo(S, n) == UNION {[1..k -> S] : k \in 0..n}

\* the values of sample j
SnowAt(j) == R(10 + j, 2)
TempAt(j) == F(27 + 3 * j)
PrecipAt(j) == R(j - 1, 10)

\* a station whose samples are taken at the times ts; short: the air_temp
\* array lacks its last element
Station(ts, short) ==
    [DateTime |-> ts,
     Snow |-> [j \in 1..Len(ts) |-> SnowAt(j)],
     Temp |-> [j \in 1..(Len(ts) - (IF short THEN 1 ELSE 0)) |-> TempAt(j)],
     HourPrecip |-> [j \in 1..Len(ts) |-> PrecipAt(j)]]

TelemetryDoc(ts, short) == [Valid |-> TRUE, Stations |-> <<Station(ts, short)>>]

NoStations == [Valid |-> TRUE, Stations |-> <<>>]

\* telemetry documents with samples at times of T
TelemetryDocs(T) ==
    {NoData, NoStations}
        \cup {TelemetryDoc(ts, FALSE) : ts \in SeqsUpTo(T, MaxSamples)}
        \cup {TelemetryDoc(ts, TRUE) : ts \in [1..1 -> T]}

\* the duration text of h hours, h < 10
PT(h) == <<"P", "T", ToString(h), "H">>

PT1H == <<"P", "T", "1", "H">>
PT2H == <<"P", "T", "2", "H">>
P1D == <<"P", "1", "D">>
PT1H30M == <<"P", "T", "1", "H", "3", "0", "M">>
P1DT6H == <<"P", "1", "D", "T", "6", "H">>

\* the text of the instant w (UTC) as the forecast source writes it
Utc(w) == [Wall |-> w, Zone |-> "+00:00"]

\* the values of triple j of each series: millimetres, metres, Celsius
SnowFallAt(j) == R(762 * j, 10)
SnowLevelAt(j) == F(1000 + 300 * j)
TemperatureAt(j) == R(40 * (2 - j), 9)

\* sign: the factor on the snowfall amounts: 1, -1 for a document whose
\* snowfall amounts are negative, 6 for one with heavy snowfall
ForecastDoc(snow, level, temp, sign) ==
    [Valid |-> TRUE,
     SnowFallAmount |-> [j \in 1..Len(snow) |->
                            [Time |-> snow[j], Value |-> RMul(F(sign), SnowFallAt(j))]],
     SnowLevel |-> [j \in 1..Len(level) |-> [Time |-> level[j], Value |-> SnowLevelAt(j)]],
     Temperature |-> [j \in 1..Len(temp) |-> [Time |-> temp[j], Value |-> TemperatureAt(j)]]]

\* forecast documents whose series are over the intervals I, documents
\* whose snow-level series has a start with another offset, documents
\* with a negative snowfall amount and documents with heavy snowfall
ForecastDocs(I) ==
    {NoData}
        \cup {ForecastDoc(iv, iv, iv, 1) : iv \in SeqsUpTo(I, MaxTriples)}
        \cup {ForecastDoc(<<iv>>, <<<<[Wall |-> iv[1].Wall, Zone |-> "-08:00"], PT1H>>>>, <<iv>>, 1) : iv \in I}
        \cup {ForecastDoc(<<iv>>, <<iv>>, <<iv>>, -1) : iv \in I}
        \cup {ForecastDoc(<<iv>>, <<iv>>, <<iv>>, 6) : iv \in I}

(***************************************************************************)
(* The parsers called on one timeline, each at most once, in either order. *)
(***************************************************************************)
CallBase == 3 * Day

CallTimes == {CallBase + 60, CallBase + 90}

CallIntervals ==
    {<<Utc(CallBase - LAOffset), PT2H>>,
     <<Utc(CallBase - LAOffset), P1D>>,
     <<Utc(CallBase - LAOffset), P1DT6H>>,
     <<Utc(CallBase - LAOffset + 30), PT1H30M>>}

NoImage == <<>>

Init ==
    /\ merged = EmptyMap
    /\ pc = "start"
    /\ telemetry = NoData
    /\ forecast = NoData
    /\ i = 0
    /\ err = "nil"
    /\ called = {}
    /\ now = 0
    /\ start = 0
    /\ curr = 0
    /\ total = F(0)
    /\ startDepth = F(0)
    /\ img = NoImage

\* a parser may be called at the start and after a call that returned no error
AtCall == pc \in {"start", "retTelemetry", "retFuture"} /\ err = "nil"

CallLoadPastTelemetry ==
    /\ AtCall
    /\ "loadPastTelemetry" \notin called
    /\ called' = called \cup {"loadPastTelemetry"}
    /\ \E data \in TelemetryDocs(CallTimes) : LoadPastTelemetryCall(data)
    /\ UNCHANGED walkVars

CallLoadFuture ==
    /\ AtCall
    /\ "loadFuture" \notin called
    /\ called' = called \cup {"loadFuture"}
    /\ \E data \in ForecastDocs(CallIntervals) : LoadFutureCall(data)
    /\ UNCHANGED walkVars

NextCalls ==
    \/ CallLoadPastTelemetry
    \/ CallLoadFuture
    \/ ParserStep

SpecCalls == Init /\ [][NextCalls]_vars

(***************************************************************************)
(* buildImage: constants, colours and the bitmap primitives.               *)
(***************************************************************************)
gridWidth == 64
gridHeight == 16
snowlevel == 1490
coldTemp == 29
hotTemp == 32

mainColor == <<128, 255, 255, 255>>
backgroundColor == <<0, 0, 0, 255>>
pastSnowDayColor == mainColor
pastSnowNightColor == mainColor
futureSnowDayColor == mainColor
futureSnowNightColor == mainColor
timeColor == <<0, 128, 128, 255>>
flakeColor == mainColor
coldColor == <<50, 168, 168, 255>>
hotColor == <<139, 168, 50, 255>>

tempColors ==
    [t \in 29..32 |->
        CASE t = 29 -> <<50, 168, 0, 255>>
          [] t = 30 -> <<50, 168, 119, 255>>
          [] t = 31 -> <<50, 158, 58, 255>>
          [] t = 32 -> <<98, 168, 50, 255>>]

\* makeImage: every cell black
makeImage == [x \in 0..(gridWidth - 1) |-> [y \in 0..(gridHeight - 1) |-> backgroundColor]]

\* setPixel: img.Set leaves a pixel outside the image as it is
setPixel(im, x, y, c) ==
    IF x \in 0..(gridWidth - 1) /\ y \in 0..(gridHeight - 1)
    THEN [im EXCEPT ![x][y] = c]
    ELSE im

\* the loop of setColumn, from row yy on
RECURSIVE setColumnFrom(_, _, _, _)
setColumnFrom(im, x, yy, c) ==
    IF yy < gridHeight THEN setColumnFrom(setPixel(im, x, yy, c), x, yy + 1, c) ELSE im

setColumn(im, x, y, c, snowing) ==
    LET filled == setColumnFrom(im, x, y, c) IN
    IF snowing /\ y = 16 THEN setPixel(filled, x, 15, c) ELSE filled

(***************************************************************************)
(* buildImage: the window and the walk.                                    *)
(***************************************************************************)
\* time.Now().Truncate(time.Hour)
Truncate(t) == t - (t % TimeHour)

\* lines 358-359: 16:00 in la on the day before t
Anchor(t) == Midnight(t) - Day + 16 * TimeHour

\* mutant: the window starts three hours before now
GraphStartThreeBack == now - 3 * TimeHour

\* lines 366, 369
GraphStart == now - 4 * TimeHour
GraphEnd == GraphStart + 64 * TimeHour

\* line 404
Offset(t) == (t - GraphStart) \div TimeHour

\* lines 413-418 and 523-528: the midnight and noon ticks of column x
Ticks(im, x, hour) ==
    IF hour = 0 THEN setPixel(setPixel(im, x, 14, timeColor), x, 15, timeColor)
    ELSE IF hour = 12 THEN setPixel(im, x, 15, timeColor)
    ELSE im

\* lines 423-425 and 391-393
ResetTotal(tot) == IF RGt(tot, F(0)) THEN F(0) ELSE tot

\* mutant: the hour now itself is taken for a past hour
ResetStartDepthAtNow(m, t, present, depth) ==
    IF t <= present
    THEN IF t \in DOMAIN m THEN m[t].ActualSnow ELSE F(0)
    ELSE depth

\* lines 427-434: the baseline after the reset at a 16:00 hour t
ResetStartDepth(m, t, present, depth) ==
    IF t < present
    THEN IF t \in DOMAIN m THEN m[t].ActualSnow ELSE F(0)
    ELSE depth

\* mutant: the temperature strip is not painted
TempStripUnpainted(im, x, temp) == im

\* lines 514-520: the temperature strip of column x
TempStrip(im, x, temp) ==
    IF RGt(temp, F(hotTemp)) THEN setPixel(im, x, 0, hotColor)
    ELSE IF RLt(temp, F(coldTemp)) THEN setPixel(im, x, 0, coldColor)
    ELSE setPixel(im, x, 0, tempColors[RInt(temp)])

\* lines 447-449
ClampTotal(tot) == IF RLt(tot, F(0)) THEN F(0) ELSE tot

\* mutant: rain is accumulated as well
FutureTotalWithRain(tot, rec) == RAdd(ClampTotal(tot), rec.PredictedSnow)

\* lines 451-468: the total after a future hour
FutureTotal(tot, rec) ==
    IF RLt(rec.PredictedSnowLevel, F(snowlevel))
    THEN RAdd(ClampTotal(tot), rec.PredictedSnow)
    ELSE ClampTotal(tot)

\* lines 451-475: the snow and rain markers of a future hour
FutureMarkers(im, x, rec) ==
    IF RLt(rec.PredictedSnowLevel, F(snowlevel))
    THEN IF RGt(rec.PredictedSnow, F(0))
         THEN LET top == 1 + (x % 2) * 2
                  im1 == setPixel(im, x, top, flakeColor)
                  im2 == IF RGt(rec.PredictedSnow, R(25, 100))
                         THEN setPixel(im1, x, top + 4, flakeColor) ELSE im1
              IN IF RGt(rec.PredictedSnow, R(50, 100))
                 THEN setPixel(im2, x, top + 8, flakeColor) ELSE im2
         ELSE im
    ELSE LET top == 1 + (x % 2) * 3 IN
         IF RGt(rec.PredictedSnow, F(0))
         THEN setPixel(setPixel(im, x, top, flakeColor), x, top + 1, flakeColor)
         ELSE im

\* lines 477-480
FutureColor(hour) ==
    IF hour >= 16 \/ hour < 9 THEN futureSnowNightColor ELSE futureSnowDayColor

\* lines 487-496: the precipitation marker of a past hour
PastMarkers(im, x, rec) ==
    IF RGt(rec.ActualPrecip, F(0))
    THEN IF RGt(rec.ActualTemp, F(hotTemp))
         THEN LET top == 1 + (x % 2) * 3 IN
              setPixel(setPixel(im, x, top, flakeColor), x, top + 1, flakeColor)
         ELSE LET top == 1 + (x % 2) * 2 IN setPixel(im, x, top, flakeColor)
    ELSE im

\* mutant: the baseline does not follow a falling depth
MinDepthKept(depth, rec) == depth

\* lines 498-500 and 385-387
MinDepth(depth, rec) ==
    IF RLt(rec.ActualSnow, depth) THEN rec.ActualSnow ELSE depth

\* mutant: the total is assigned as in the pre-window loop (line 398)
PastTotalAssigned(tot, depth, rec) == RSub(rec.ActualSnow, depth)

\* lines 502-504
PastTotal(tot, depth, rec) ==
    IF RGt(RSub(rec.ActualSnow, depth), tot) THEN RSub(rec.ActualSnow, depth) ELSE tot

\* lines 505-508
PastColor(hour) ==
    IF hour >= 16 \/ hour < 9 THEN pastSnowNightColor ELSE pastSnowDayColor

\* lines 385-398: the baseline after a pre-window hour with a record
PreWindowStartDepth(depth, t, rec) ==
    IF HourOf(t) = 16 THEN rec.ActualSnow ELSE MinDepth(depth, rec)

(***************************************************************************)
(* The documents buildImage fetches, at the time present.                  *)
(***************************************************************************)
MaxHistory == 32        \* hours of telemetry before now
ScanCap == 48           \* hours the scan for a start record is followed

\* the observed values k hours before present
DepthBack(k) == RSub(R(<<110, 103, 105, 100>>[((k - 1) % 4) + 1], 10), F((k - 1) \div 4))
TempBack(k) == R(<<54, 61, 66>>[(k % 3) + 1], 2)
PrecipBack(k) == R(k % 2, 10)

\* hourly samples for the hours present - back .. present - 1, oldest
\* first, without the 16:00 hours if skip16
HistoryHours(present, back, skip16) ==
    {k \in 1..back : ~(skip16 /\ HourOf(present - k * TimeHour) = 16)}

\* the elements of ks, largest first
RECURSIVE Descending(_)
Descending(ks) ==
    IF ks = {} THEN <<>>
    ELSE LET k == CHOOSE x \in ks : \A y \in ks : x >= y
         IN <<k>> \o Descending(ks \ {k})

History(present, back, skip16) ==
    LET ks == Descending(HistoryHours(present, back, skip16)) IN
    [Valid |-> TRUE,
     Stations |-> <<[DateTime |-> [j \in 1..Len(ks) |-> present - ks[j] * TimeHour + 60],
                     Snow |-> [j \in 1..Len(ks) |-> DepthBack(ks[j])],
                     Temp |-> [j \in 1..Len(ks) |-> TempBack(ks[j])],
                     HourPrecip |-> [j \in 1..Len(ks) |-> PrecipBack(ks[j])]]>>]

\* the depths of a settling snowpack k hours before present, k in 1..8
SettleBack(k) == R(<<94, 90, 88, 92, 90, 97, 95, 100>>[k], 10)

\* hourly samples for the eight hours before present, the depth falling
\* below that of the first of them
Settling(present) ==
    [Valid |-> TRUE,
     Stations |-> <<[DateTime |-> [j \in 1..8 |-> present - (9 - j) * TimeHour + 60],
                     Snow |-> [j \in 1..8 |-> SettleBack(9 - j)],
                     Temp |-> [j \in 1..8 |-> TempBack(9 - j)],
                     HourPrecip |-> [j \in 1..8 |-> PrecipBack(9 - j)]]>>]

BuildTelemetryDocs(present) ==
    {NoData, NoStations, TelemetryDoc(<<present>>, TRUE), Settling(present)}
        \cup {History(present, back, skip16) :
                back \in {0, 1, 4, 8, MaxHistory}, skip16 \in BOOLEAN}

BuildIntervals(present) ==
    {<<Utc(present - LAOffset), PT2H>>,
     <<Utc(present - LAOffset + 60), PT(9)>>,
     <<Utc(present - LAOffset + 180), P1D>>}

\* the clock readings of line 311: 10:20, 16:20, 18:20, 20:20, 22:20 and
\* 02:20 in la
Clocks == {3 * Day + LAOffset + h * TimeHour + 20 : h \in {10, 16, 18, 20, 22, 26}}

(***************************************************************************)
(* buildImage.                                                             *)
(***************************************************************************)
\* lines 311-322
BuildLoadPastTelemetry ==
    /\ pc = "start"
    /\ called = {}
    /\ \E clock \in Clocks :
          /\ now' = clock
          /\ \E data \in BuildTelemetryDocs(Truncate(clock)) : LoadPastTelemetryCall(data)
    /\ called' = {"loadPastTelemetry"}
    /\ UNCHANGED <<start, curr, total, startDepth, img>>

\* lines 323-348
BuildLoadFuture ==
    /\ pc = "retTelemetry"
    /\ called = {"loadPastTelemetry"}
    /\ err = "nil"
    /\ \E data \in ForecastDocs(BuildIntervals(Truncate(now))) : LoadFutureCall(data)
    /\ called' = called \cup {"loadFuture"}
    /\ UNCHANGED walkVars

\* lines 323-325, 349-351: log.Fatal
BuildFatal ==
    /\ pc \in {"retTelemetry", "retFuture"}
    /\ err # "nil"
    /\ pc' = "fatal"
    /\ UNCHANGED <<merged, telemetry, forecast, i, err, called, walkVars>>

\* lines 349-359
BuildWalk ==
    /\ pc = "retFuture"
    /\ err = "nil"
    /\ now' = Truncate(now)
    /\ start' = Anchor(Truncate(now))
    /\ pc' = "scan"
    /\ telemetry' = NoData
    /\ forecast' = NoData
    /\ UNCHANGED <<merged, i, err, called, curr, total, startDepth, img>>

\* lines 361-363: one iteration of the scan for a start record
ScanStep ==
    /\ pc = "scan"
    /\ start \notin DOMAIN merged
    /\ start < Anchor(now) + ScanCap * TimeHour
    /\ start' = start + TimeHour
    /\ UNCHANGED <<merged, pc, telemetry, forecast, i, err, called,
                   now, curr, total, startDepth, img>>

\* lines 361-377: the scan ends at a record
ScanFound ==
    /\ pc = "scan"
    /\ start \in DOMAIN merged
    /\ curr' = start
    /\ img' = makeImage
    /\ total' = F(0)
    /\ startDepth' = merged[start].ActualSnow
    /\ pc' = "prewindow"
    /\ UNCHANGED <<merged, telemetry, forecast, i, err, called, now, start>>

\* lines 379-399: one iteration of the pre-window loop
PreWindowStep ==
    /\ pc = "prewindow"
    /\ curr < GraphStart
    /\ IF curr \notin DOMAIN merged
       THEN UNCHANGED <<total, startDepth>>
       ELSE LET depth == PreWindowStartDepth(startDepth, curr, merged[curr]) IN
            /\ startDepth' = depth
            /\ total' = RSub(merged[curr].ActualSnow, depth)
    /\ curr' = curr + TimeHour
    /\ UNCHANGED <<merged, pc, telemetry, forecast, i, err, called, now, start, img>>

\* lines 379, 401: the pre-window loop ends
PreWindowDone ==
    /\ pc = "prewindow"
    /\ curr >= GraphStart
    /\ pc' = "render"
    /\ UNCHANGED <<merged, telemetry, forecast, i, err, called, walkVars>>

\* lines 403-435: the first ticks and the 16:00 reset of a window hour
RenderReset ==
    /\ pc = "render"
    /\ curr < GraphEnd
    /\ img' = Ticks(img, Offset(curr), HourOf(curr))
    /\ total' = IF HourOf(curr) = 16 THEN ResetTotal(total) ELSE total
    /\ startDepth' = IF HourOf(curr) = 16
                     THEN ResetStartDepth(merged, curr, now, startDepth)
                     ELSE startDepth
    /\ pc' = "branch"
    /\ UNCHANGED <<merged, telemetry, forecast, i, err, called, now, start, curr>>

\* mutant: the walk ends at an hour without a record
RenderSkipEndsWalk ==
    /\ pc = "branch"
    /\ curr \notin DOMAIN merged
    /\ pc' = "done"
    /\ UNCHANGED <<merged, telemetry, forecast, i, err, called, walkVars>>

\* lines 437-440: no record for the hour, continue
RenderSkip ==
    /\ pc = "branch"
    /\ curr \notin DOMAIN merged
    /\ curr' = curr + TimeHour
    /\ pc' = "render"
    /\ UNCHANGED <<merged, telemetry, forecast, i, err, called,
                   now, start, total, startDepth, img>>

\* lines 444-483 and 513-528: a window hour at or after now
RenderFuture ==
    /\ pc = "branch"
    /\ curr \in DOMAIN merged
    /\ curr >= now
    /\ LET rec == merged[curr]
           x == Offset(curr)
           tot == FutureTotal(total, rec)
           im1 == FutureMarkers(img, x, rec)
           im2 == setColumn(im1, x, 16 - RInt(tot), FutureColor(HourOf(curr)), FALSE)
           im3 == TempStrip(im2, x, rec.PredictedTemp)
       IN /\ total' = tot
          /\ img' = Ticks(im3, x, HourOf(curr))
    /\ curr' = curr + TimeHour
    /\ pc' = "render"
    /\ UNCHANGED <<merged, telemetry, forecast, i, err, called, now, start, startDepth>>

\* lines 484-511 and 513-528: a window hour before now
RenderPast ==
    /\ pc = "branch"
    /\ curr \in DOMAIN merged
    /\ curr < now
    /\ LET rec == merged[curr]
           x == Offset(curr)
           depth == MinDepth(startDepth, rec)
           tot == PastTotal(total, depth, rec)
           im1 == PastMarkers(img, x, rec)
           im2 == setColumn(im1, x, 16 - RInt(tot), PastColor(HourOf(curr)), FALSE)
           im3 == TempStrip(im2, x, rec.ActualTemp)
       IN /\ startDepth' = depth
          /\ total' = tot
          /\ img' = Ticks(im3, x, HourOf(curr))
    /\ curr' = curr + TimeHour
    /\ pc' = "render"
    /\ UNCHANGED <<merged, telemetry, forecast, i, err, called, now, start>>

\* lines 403, 531: the walk is over
RenderDone ==
    /\ pc = "render"
    /\ curr >= GraphEnd
    /\ pc' = "done"
    /\ UNCHANGED <<merged, telemetry, forecast, i, err, called, walkVars>>

Next ==
    \/ BuildLoadPastTelemetry
    \/ BuildLoadFuture
    \/ BuildFatal
    \/ BuildWalk
    \/ ParserStep
    \/ ScanStep
    \/ ScanFound
    \/ PreWindowStep
    \/ PreWindowDone
    \/ RenderReset
    \/ RenderSkip
    \/ RenderFuture
    \/ RenderPast
    \/ RenderDone

Spec == Init /\ [][Next]_vars

(***************************************************************************)
(* Properties of the parsers.                                              *)
(***************************************************************************)
Fields ==
    {"Hour", "PredictedSnow", "PredictedSnowLevel", "PredictedTemp",
     "ActualSnow", "ActualTemp", "ActualPrecip"}

\* the fields the loop at position p computes
Computes(p) ==
    CASE p = "telemetry" -> {"Hour", "ActualSnow", "ActualTemp", "ActualPrecip"}
      [] p = "snowFall" -> {"Hour", "PredictedSnow"}
      [] p = "snowLevel" -> {"Hour", "PredictedSnowLevel"}
      [] p = "temperature" -> {"Hour", "PredictedTemp"}
      [] OTHER -> Fields

\* the hourly slots of an interval of h hours from t
Slots(t, h) == {t + 60 * k : k \in 0..(h - 1)}

\* a step of the loop at position p that handles a triple or a sample
LoopStep(p) == pc = p /\ pc' = p /\ i' = i + 1

\* C1: a parser step keeps every record of the timeline and changes in it
\* only the fields that parser computes: it clears no other field.
C1_MergeKeepsOtherFields ==
    [][\A k \in DOMAIN merged :
          /\ k \in DOMAIN merged'
          /\ \A f \in Fields \ Computes(pc) : merged'[k][f] = merged[k][f]]_vars

\* C2: the step for sample i of the telemetry document leaves, at the key
\* DateTime[i] - 1 hour, a record with the observed snow depth, temperature
\* and one-hour precipitation of index i.
C2_TelemetrySampleAtPreviousHour ==
    [][LoopStep("telemetry") =>
          LET obs == telemetry.Stations[1]
              k == obs.DateTime[i] - 60
          IN /\ k \in DOMAIN merged'
             /\ merged'[k].Hour = k
             /\ merged'[k].ActualSnow = obs.Snow[i]
             /\ merged'[k].ActualTemp = obs.Temp[i]
             /\ merged'[k].ActualPrecip = obs.HourPrecip[i]]_vars

\* C2 witness: the second sample of a document has been stored one hour
\* before its timestamp, half past the hour
C2_Witness ==
    /\ pc = "telemetry"
    /\ i = 3
    /\ telemetry.Stations[1].DateTime[2] = CallBase + 90
    /\ CallBase + 30 \in DOMAIN merged
    /\ merged[CallBase + 30].ActualSnow = SnowAt(2)

\* C3: the step for a snowfall triple (start, PT<h>H, value), h >= 1, sets
\* predicted snowfall to (value / 25.4) / h on each of the h hourly slots
\* from the start the parser read, changes no other slot, and the h values
\* add up to value / 25.4.
C3_SnowfallSpreadEvenly ==
    [][\A h \in 1..9 :
          (LoopStep("snowFall") /\ forecast.SnowFallAmount[i].Time[2] = PT(h)) =>
              LET v == forecast.SnowFallAmount[i]
                  t == ParseInLocation(v.Time[1]).t
                  inches == R(v.Value.n * 10, v.Value.d * 254)
              IN /\ DOMAIN merged' = DOMAIN merged \cup Slots(t, h)
                 /\ \A k \in Slots(t, h) :
                       merged'[k].PredictedSnow = R(inches.n, inches.d * h)
                 /\ \A k \in DOMAIN merged \ Slots(t, h) : merged'[k] = merged[k]
                 /\ RSum([j \in 1..h |-> merged'[t + 60 * (j - 1)].PredictedSnow])
                        = inches]_vars

\* C3 witness: 76.2 mm over PT2H has put 3/2 inch on both of its slots
C3_Witness ==
    /\ pc = "snowFall"
    /\ i = 2
    /\ forecast.SnowFallAmount[1].Time[2] = PT2H
    /\ forecast.SnowFallAmount[1].Value = R(762, 10)
    /\ \A k \in Slots(ParseInLocation(forecast.SnowFallAmount[1].Time[1]).t, 2) :
          k \in DOMAIN merged /\ merged[k].PredictedSnow = R(3, 2)

\* C4: the step for a snow-level triple (start, PT<h>H, value) writes value
\* itself to each of its h hourly slots, and the step for a temperature
\* triple writes value * 9 / 5 + 32 to each of its h hourly slots.
C4_LevelAndTemperatureReplicated ==
    [][\A h \in 1..9 :
          /\ (LoopStep("snowLevel") /\ forecast.SnowLevel[i].Time[2] = PT(h)) =>
                LET v == forecast.SnowLevel[i]
                    t == ParseInLocation(v.Time[1]).t
                IN /\ DOMAIN merged' = DOMAIN merged \cup Slots(t, h)
                   /\ \A k \in Slots(t, h) : merged'[k].PredictedSnowLevel = v.Value
          /\ (LoopStep("temperature") /\ forecast.Temperature[i].Time[2] = PT(h)) =>
                LET v == forecast.Temperature[i]
                    t == ParseInLocation(v.Time[1]).t
                IN /\ DOMAIN merged' = DOMAIN merged \cup Slots(t, h)
                   /\ \A k \in Slots(t, h) :
                         merged'[k].PredictedTemp
                             = R(v.Value.n * 9 + 160 * v.Value.d, 5 * v.Value.d)]_vars

\* C4 witness: 40/9 Celsius over PT2H has put 40 Fahrenheit on both slots,
\* which hold the snow level 1300 of the same interval
C4_Witness ==
    /\ pc = "temperature"
    /\ i = 2
    /\ forecast.Temperature[1].Time[2] = PT2H
    /\ forecast.Temperature[1].Value = R(40, 9)
    /\ \A k \in Slots(ParseInLocation(forecast.Temperature[1].Time[1]).t, 2) :
          /\ k \in DOMAIN merged
          /\ merged[k].PredictedTemp = F(40)
          /\ merged[k].PredictedSnowLevel = F(1300)

\* C5: every key of the timeline is a whole hour.
C5_KeysAreWholeHours == \A k \in DOMAIN merged : k % 60 = 0

\* the durations of the documents in which the pattern finds no hours
NoHours == {P1D, P1DT6H}

\* C6: the step for a triple whose duration has no PT<n>H in it changes no
\* record, returns no error and moves on to the next triple; and when
\* loadFuture returns without error, every slot of every PT<n>H triple of
\* every series is in the timeline, whatever triples were skipped.
C6_UnmatchedDurationSkipped ==
    /\ [][(InFuture /\ i <= Len(Values) /\ Values[i].Time[2] \in NoHours
              /\ Values[i].Time[1].Zone = "+00:00") =>
             (merged' = merged /\ err' = "nil" /\ pc' = pc /\ i' = i + 1)]_vars
    /\ [](pc = "retFuture" /\ err = "nil" =>
             \A s \in {forecast.SnowFallAmount, forecast.SnowLevel, forecast.Temperature} :
                 \A j \in 1..Len(s) : \A h \in 1..9 :
                     s[j].Time[2] = PT(h) =>
                         Slots(ParseInLocation(s[j].Time[1]).t, h) \subseteq DOMAIN merged)

\* C6 witness: loadFuture has returned without error on a document whose
\* series start with a P1D triple and go on with a PT2H triple, whose
\* temperature is in the timeline
C6_Witness ==
    /\ pc = "retFuture"
    /\ err = "nil"
    /\ Len(forecast.Temperature) = 2
    /\ forecast.Temperature[1].Time[2] = P1D
    /\ forecast.Temperature[2].Time[2] = PT2H
    /\ \A k \in Slots(ParseInLocation(forecast.Temperature[2].Time[1]).t, 2) :
          k \in DOMAIN merged /\ merged[k].PredictedTemp = toFahrenheit(TemperatureAt(2))

\* C7: a call of loadPastTelemetry on a document without stations returns
\* the error "no stations data" at once, the timeline as it was.
C7_NoStationsIsAnError ==
    [][("loadPastTelemetry" \in called' \ called
            /\ telemetry'.Valid /\ Len(telemetry'.Stations) = 0) =>
          (pc' = "retTelemetry" /\ err' = "no stations data" /\ merged' = merged)]_vars

\* C7 witness: the call has returned that error on a timeline that holds
\* forecast records
C7_Witness ==
    /\ pc = "retTelemetry"
    /\ err = "no stations data"
    /\ telemetry = NoStations
    /\ merged # EmptyMap

\* the parallel arrays of the document differ in length
Mismatched(data) ==
    /\ data.Valid
    /\ Len(data.Stations) > 0
    /\ \/ Len(data.Stations[1].Snow) < Len(data.Stations[1].DateTime)
       \/ Len(data.Stations[1].Temp) < Len(data.Stations[1].DateTime)
       \/ Len(data.Stations[1].HourPrecip) < Len(data.Stations[1].DateTime)

\* C8: loadPastTelemetry on a document whose parallel arrays differ in
\* length does not crash and stores no record: it returns a parse error.
C8_MismatchedArraysAreAParseError ==
    Mismatched(telemetry) =>
        /\ pc # "panic"
        /\ pc = "retTelemetry" => err \in {"json", "parse"}
        /\ pc = "telemetry" => i = 1

(***************************************************************************)
(* Properties of the walk of buildImage.                                   *)
(***************************************************************************)
\* C9: the scan for a start record goes on only while a record lies ahead
\* of it, on one of the hours it visits: without one it has ended in an
\* error, so the build terminates.
C9_ScanIsGuarded ==
    pc = "scan" =>
        \E k \in DOMAIN merged : k >= start /\ (k - start) % 60 = 0

\* the record of the hour t, observed depth 0 when there is none
ObservedDepth(t) == IF t \in DOMAIN merged THEN merged[t].ActualSnow ELSE F(0)

\* the step of lines 403-435 at a 16:00 hour
ResetStep == pc = "render" /\ pc' = "branch" /\ HourOf(curr) = 16

\* C10 as claimed: at every 16:00 hour of the walk total is 0 before the
\* branch runs, startDepth is the observed depth of the hour (0 without a
\* record) if the hour is at or before now, and unchanged if it is after.
C10_ResetAtOrBeforeNow ==
    [][ResetStep =>
          /\ total' = F(0)
          /\ curr <= now => startDepth' = ObservedDepth(curr)
          /\ curr > now => startDepth' = startDepth]_vars

\* C10 as amended: at every 16:00 hour of the render loop a positive total
\* is reset to 0 before the branch runs and any other total is left as it
\* is; startDepth is reset to the observed depth of the hour (0 without a
\* record) if the hour is before now, and unchanged if it is now or later.
\* At a 16:00 hour of the pre-window loop, a record sets startDepth to its
\* observed depth and total to 0, and without a record nothing is reset.
C10_ResetBeforeNow ==
    [][/\ ResetStep =>
             /\ total' = (IF total.n > 0 THEN F(0) ELSE total)
             /\ curr < now => startDepth' = ObservedDepth(curr)
             /\ curr >= now => startDepth' = startDepth
       /\ (pc = "prewindow" /\ curr' # curr /\ HourOf(curr) = 16) =>
             IF curr \in DOMAIN merged
             THEN startDepth' = merged[curr].ActualSnow /\ total' = F(0)
             ELSE startDepth' = startDepth /\ total' = total]_vars

\* C10 witness: at 16:00, two hours before now, the reset has run: total is
\* 0 and startDepth is the depth observed at 16:00, which is not the
\* smallest depth seen since the start
C10_Witness ==
    /\ pc = "branch"
    /\ HourOf(curr) = 16
    /\ curr = now - 2 * TimeHour
    /\ curr \in DOMAIN merged
    /\ total = F(0)
    /\ startDepth = merged[curr].ActualSnow
    /\ \E k \in DOMAIN merged : k < curr /\ k >= start /\ RLt(merged[k].ActualSnow, startDepth)

\* a past hour with a record is processed (lines 484-511)
PastStep == pc = "branch" /\ pc' = "render" /\ curr \in DOMAIN merged /\ curr < now

\* the depths of the example, oldest first, and the totals they give
ExampleDepths == <<F(10), R(105, 10), R(103, 10), F(11)>>
ExampleTotals == <<F(0), R(1, 2), R(1, 2), F(1)>>

\* the walk starts at the first window hour and the four past hours hold
\* the depths of the example, with no 16:00 hour after the first of them
ExampleTimeline ==
    /\ pc \in {"render", "branch"}
    /\ start = GraphStart
    /\ \A k \in 1..4 :
          /\ GraphStart + (k - 1) * TimeHour \in DOMAIN merged
          /\ merged[GraphStart + (k - 1) * TimeHour].ActualSnow = ExampleDepths[k]
          /\ k > 1 => HourOf(GraphStart + (k - 1) * TimeHour) # 16

\* C11: processing a past hour leaves startDepth at the smaller of its old
\* value and the observed depth, and total at the larger of its old value
\* and (observed depth - startDepth); no step of the walk over the past
\* hours other than a 16:00 reset lowers total.  For the observed depths
\* 10.0, 10.5, 10.3, 11.0 the totals after the four past hours are 0, 0.5,
\* 0.5, 1.0.
C11_PastTotalIsRunningMax ==
    /\ [][/\ PastStep =>
                LET depth == merged[curr].ActualSnow
                    low == IF RLt(depth, startDepth) THEN depth ELSE startDepth
                    gain == RSub(depth, low)
                IN /\ startDepth' = low
                   /\ total' = (IF RLt(total, gain) THEN gain ELSE total)
          /\ (pc \in {"render", "branch"} /\ curr < now /\ ~ResetStep) =>
                ~RLt(total', total)]_vars
    /\ [](ExampleTimeline =>
             \A k \in 1..4 :
                 (pc = "render" /\ curr = GraphStart + k * TimeHour) =>
                     total = ExampleTotals[k])

\* C11 witness: the four past hours of the example are done; the dip to
\* 10.3 has left the total at 0.5 and the last hour has raised it to 1.0
C11_Witness ==
    /\ ExampleTimeline
    /\ pc = "render"
    /\ curr = now
    /\ total = F(1)
    /\ startDepth = F(10)

\* an hour at or after now with a record is processed (lines 444-483)
FutureStep == pc = "branch" /\ pc' = "render" /\ curr \in DOMAIN merged /\ curr >= now

\* C12 as claimed: a future hour with a record whose predicted snow level
\* is below snowlevel raises total by exactly its predicted snowfall, and
\* any other future hour with a record leaves total unchanged.
C12_FutureAddsSnowfall ==
    [][FutureStep =>
          IF merged[curr].PredictedSnowLevel.n < snowlevel * merged[curr].PredictedSnowLevel.d
          THEN total' = RAdd(total, merged[curr].PredictedSnow)
          ELSE total' = total]_vars

\* C12 as amended: a future hour with a record first raises a negative
\* total to 0; then, if its predicted snow level is below snowlevel, total
\* increases by exactly its predicted snowfall, and otherwise it is left
\* at that value.  A total that is not negative is therefore increased by
\* the snowfall of a snow hour and unchanged by a rain hour.
C12_FutureAddsSnowfallFromZero ==
    [][FutureStep =>
          LET base == IF total.n < 0 THEN F(0) ELSE total IN
          IF merged[curr].PredictedSnowLevel.n < snowlevel * merged[curr].PredictedSnowLevel.d
          THEN total' = RAdd(base, merged[curr].PredictedSnow)
          ELSE total' = base]_vars

\* C12 witness: the hour now was rain with a predicted snowfall of 3 inches
\* and left total at 0; the hours now + 2 and now + 3 were snow of 1/3 inch
\* each and have brought it to 2/3
C12_Witness ==
    /\ pc = "render"
    /\ curr = now + 4 * TimeHour
    /\ start = now
    /\ \A k \in {0, 2, 3} : now + k * TimeHour \in DOMAIN merged
    /\ merged[now].PredictedSnowLevel = F(1600)
    /\ merged[now].PredictedSnow = F(3)
    /\ \A k \in 2..3 :
          /\ merged[now + k * TimeHour].PredictedSnowLevel = F(1300)
          /\ merged[now + k * TimeHour].PredictedSnow = R(1, 3)
    /\ total = R(2, 3)

\* the walk of lines 403-529 is under way or over
InWalk == pc \in {"render", "branch", "done"}

\* the hour of window column x
ColumnHour(x) == GraphStart + x * TimeHour

\* the window columns whose hour has been processed
Processed == {x \in 0..(gridWidth - 1) : ColumnHour(x) < curr}

\* the temperature the claim selects for the hour t
HourTemp(t) == IF t >= now THEN merged[t].PredictedTemp ELSE merged[t].ActualTemp

\* the integer part of a temperature that is not negative
IntegerPart(temp) == temp.n \div temp.d

\* the colour the claim gives the temperature
TempColor(temp) ==
    IF temp.n < coldTemp * temp.d THEN coldColor
    ELSE IF temp.n > hotTemp * temp.d THEN hotColor
    ELSE tempColors[IntegerPart(temp)]

\* C13: during and after the walk, row 0 of the column of every processed
\* window hour that has a record holds the colour of that hour's
\* temperature (predicted from now on, observed before): coldColor below
\* coldTemp, hotColor above hotTemp, else the table colour of its integer
\* part, which the table has; the bar of the hour does not stay in row 0.
C13_TemperatureInRowZero ==
    InWalk =>
        \A x \in Processed :
            ColumnHour(x) \in DOMAIN merged =>
                /\ (HourTemp(ColumnHour(x)).n >= coldTemp * HourTemp(ColumnHour(x)).d
                      /\ HourTemp(ColumnHour(x)).n <= hotTemp * HourTemp(ColumnHour(x)).d)
                       => IntegerPart(HourTemp(ColumnHour(x))) \in DOMAIN tempColors
                /\ img[x][0] = TempColor(HourTemp(ColumnHour(x)))

\* C13 witness: the hour now + 9 is done with an accumulation of 16 inches
\* or more, so its bar covers the whole column, and row 0 of that column
\* shows hotColor for its 40 degrees; a past hour of 30.5 degrees shows the
\* table colour of 30 and one of 27 degrees coldColor
C13_Witness ==
    /\ pc = "render"
    /\ curr = now + 10 * TimeHour
    /\ total.n >= 16 * total.d
    /\ now + 9 * TimeHour \in DOMAIN merged
    /\ merged[now + 9 * TimeHour].PredictedTemp = F(40)
    /\ img[13][0] = hotColor
    /\ img[13][1] = futureSnowNightColor
    /\ \E x, y \in 0..3 :
          /\ ColumnHour(x) \in DOMAIN merged
          /\ ColumnHour(y) \in DOMAIN merged
          /\ merged[ColumnHour(x)].ActualTemp = R(61, 2)
          /\ img[x][0] = tempColors[30]
          /\ merged[ColumnHour(y)].ActualTemp = F(27)
          /\ img[y][0] = coldColor

\* C14: when the walk is over, every window column of a midnight hour has
\* rows 14 and 15 in timeColor and every window column of a noon hour has
\* row 15 in timeColor, with or without a record for the hour.
C14_TicksAtTheEnd ==
    pc = "done" =>
        \A x \in 0..(gridWidth - 1) :
            /\ HourOf(ColumnHour(x)) = 0 =>
                  img[x][14] = timeColor /\ img[x][15] = timeColor
            /\ HourOf(ColumnHour(x)) = 12 => img[x][15] = timeColor

\* C15: at a window hour without a record the branch step paints nothing,
\* leaves total and startDepth as they are and moves on to the next hour;
\* the step before it changes total only at a 16:00 hour and paints no
\* cell of rows 0 to 13.  So the column of every processed hour without a
\* record is black in rows 0 to 13 and black or a tick in rows 14 and 15.
C15_MissingHourIsSkipped ==
    /\ [][/\ (pc = "branch" /\ curr \notin DOMAIN merged) =>
                /\ img' = img
                /\ total' = total
                /\ startDepth' = startDepth
                /\ curr' = curr + TimeHour
                /\ pc' = "render"
          /\ (pc = "render" /\ pc' = "branch" /\ curr \notin DOMAIN merged) =>
                /\ HourOf(curr) # 16 => total' = total
                /\ \A x \in 0..(gridWidth - 1) : \A y \in 0..13 :
                      img'[x][y] = img[x][y]]_vars
    /\ [](InWalk =>
             \A x \in Processed :
                 ColumnHour(x) \notin DOMAIN merged =>
                     /\ \A y \in 0..13 : img[x][y] = backgroundColor
                     /\ \A y \in 14..15 : img[x][y] \in {backgroundColor, timeColor})

\* C15 witness: now is 18:00 and the hour 16:00 has no record; the walk
\* has skipped it, leaving column 2 black, and has gone on to 17:00, whose
\* column 3 shows a temperature and whose depth of 11 is the total since
\* the reset to a baseline of 0
C15_Witness ==
    /\ pc = "render"
    /\ curr = now
    /\ HourOf(now) = 18
    /\ now - 2 * TimeHour \notin DOMAIN merged
    /\ now - TimeHour \in DOMAIN merged
    /\ \A y \in 0..(gridHeight - 1) : img[2][y] = backgroundColor
    /\ img[3][0] # backgroundColor
    /\ total = F(11)

\* the column the claim gives the hour t: hours since now - 4 hours
ClaimedColumn(t) == (t - (now - 4 * TimeHour)) \div TimeHour

\* a step of the walk over the window at an hour with a record
BranchStep == pc = "branch" /\ pc' = "render" /\ curr \in DOMAIN merged

\* C16: the pre-window loop paints nothing.  Every step of the render walk
\* is at a whole hour of [now - 4 hours, now + 60 hours) and changes no
\* column but that of its hour, (curr - (now - 4 hours)) in hours.  An
\* hour with a record in columns 0 to 3 is an hour before now and is
\* handled from the observed depth and temperature, startDepth following
\* the depth; an hour with a record in columns 4 to 63 is an hour at or
\* after now and is handled from the predicted snowfall, snow level and
\* temperature, startDepth untouched.
C16_WindowAndBranches ==
    /\ [][/\ pc = "prewindow" => img' = img
          /\ (pc = "prewindow" /\ curr' # curr) => curr < now - 4 * TimeHour
          /\ pc \in {"render", "branch"} =>
                \A x \in 0..(gridWidth - 1) :
                    x # ClaimedColumn(curr) => img'[x] = img[x]
          /\ (BranchStep /\ ClaimedColumn(curr) \in 0..3) =>
                LET rec == merged[curr]
                    low == IF RLt(rec.ActualSnow, startDepth)
                           THEN rec.ActualSnow ELSE startDepth
                    gain == RSub(rec.ActualSnow, low)
                IN /\ curr < now
                   /\ startDepth' = low
                   /\ total' = (IF RLt(total, gain) THEN gain ELSE total)
                   /\ img'[ClaimedColumn(curr)][0] = TempColor(rec.ActualTemp)
          /\ (BranchStep /\ ClaimedColumn(curr) \in 4..63) =>
                LET rec == merged[curr]
                    base == IF total.n < 0 THEN F(0) ELSE total
                IN /\ curr >= now
                   /\ startDepth' = startDepth
                   /\ total' = (IF rec.PredictedSnowLevel.n < 1490 * rec.PredictedSnowLevel.d
                                 THEN RAdd(base, rec.PredictedSnow) ELSE base)
                   /\ img'[ClaimedColumn(curr)][0] = TempColor(rec.PredictedTemp)]_vars
    /\ [](/\ pc = "prewindow" => img = makeImage
          /\ pc = "branch" =>
                /\ curr >= now - 4 * TimeHour
                /\ curr < now + 60 * TimeHour
                /\ (curr - now) % TimeHour = 0
                /\ ClaimedColumn(curr) \in 0..(gridWidth - 1))

\* C16 witness: the pre-window loop has run, and the walk has done the
\* last past hour and the hour now: column 3 shows the observed 30.5
\* degrees of the hour before now, not its predicted 0, and column 4 the
\* predicted 40 degrees of now, not its observed 0
C16_Witness ==
    /\ pc = "render"
    /\ curr = now + TimeHour
    /\ start < now - 4 * TimeHour
    /\ now - TimeHour \in DOMAIN merged
    /\ now \in DOMAIN merged
    /\ merged[now - TimeHour].ActualTemp = R(61, 2)
    /\ merged[now - TimeHour].PredictedTemp = F(0)
    /\ merged[now].PredictedTemp = F(40)
    /\ merged[now].ActualTemp = F(0)
    /\ img[3][0] = tempColors[30]
    /\ img[4][0] = hotColor

\* no record of the timeline has a negative predicted snowfall
NonNegativeSnowfall == \A k \in DOMAIN merged : merged[k].PredictedSnow.n >= 0

\* C17: on a timeline without negative predicted snowfall, total is not
\* negative at any point of the pre-window loop or of the render walk.
C17_TotalIsNotNegative ==
    (pc \in {"prewindow", "render", "branch", "done"} /\ NonNegativeSnowfall) =>
        total.n >= 0

\* C17 witness: in the pre-window loop the depth has fallen from the 10.0
\* of the start to 9.5, which the baseline has followed, and has come back
\* to 9.7: total is 0.2
C17_Witness ==
    /\ pc = "prewindow"
    /\ NonNegativeSnowfall
    /\ curr = start + 3 * TimeHour
    /\ \A k \in 0..2 : start + k * TimeHour \in DOMAIN merged
    /\ merged[start].ActualSnow = F(10)
    /\ merged[start + TimeHour].ActualSnow = R(95, 10)
    /\ merged[start + 2 * TimeHour].ActualSnow = R(97, 10)
    /\ startDepth = R(95, 10)
    /\ total = R(1, 5)

\* C18: every hour with a record is painted in a column of the grid, and
\* the top row of its accumulation bar, 16 - int(total), is not negative
\* and is not the temperature row 0.
C18_BarInsideTheGrid ==
    [][BranchStep =>
          /\ Offset(curr) \in 0..(gridWidth - 1)
          /\ 16 - RInt(total') >= 1]_vars

(***************************************************************************)
(* Properties of the forecast parser's reading of validTime.               *)
(***************************************************************************)
\* the instant a start written with the offset +00:00 denotes
Denoted(value) == value.Wall

\* C19: the step for a triple (start, PT<h>H, value) whose start is written
\* with the offset +00:00 puts its records at the instant the start denotes
\* and the h - 1 hours after it, and nowhere else.
C19_KeysAtTheDenotedInstant ==
    [][\A h \in 1..9 :
          (InFuture /\ pc' = pc /\ i' = i + 1
             /\ Values[i].Time[2] = PT(h) /\ Values[i].Time[1].Zone = "+00:00") =>
              /\ Slots(Denoted(Values[i].Time[1]), h) \subseteq DOMAIN merged'
              /\ DOMAIN merged' \subseteq
                     DOMAIN merged \cup Slots(Denoted(Values[i].Time[1]), h)]_vars

\* the whole duration text d has the form PT<n>H
WholeHours(d) ==
    /\ Len(d) >= 4
    /\ d[1] = "P"
    /\ d[2] = "T"
    /\ d[Len(d)] = "H"
    /\ \A p \in 3..(Len(d) - 1) : IsDigit(d[p])

\* C20: the step for a triple whose whole duration is PT<n>H adds records
\* on n hourly slots at most, and the step for a triple whose duration is
\* anything else changes no record.
C20_OnlyWholeDurationsExpand ==
    [][(InFuture /\ i <= Len(Values) /\ Values[i].Time[1].Zone = "+00:00") =>
          IF WholeHours(Values[i].Time[2])
          THEN \A h \in 1..9 :
                   Values[i].Time[2] = PT(h) =>
                       Cardinality(DOMAIN merged' \ DOMAIN merged) <= h
          ELSE merged' = merged]_vars

====
